---- MODULE Spec2Model ----
(***************************************************************************)
(* A model of the MCP host of github-analytics-mcp: the ConnectionManager  *)
(* (host/connection_manager.py), the MCPHost and its agentic loop          *)
(* (host/host.py), with the Completion Engine (Groq) and the Tool Provider *)
(* (the MCP server) as nondeterministic environments.                      *)
(*                                                                         *)
(* Spec      one MCPHost: initialize(), then one process_query invocation  *)
(* FairSpec  Spec with weak fairness of the invocation's steps             *)
(* SpecConn  one ConnectionManager driven by arbitrary sequences of        *)
(*           initialize / get_tools / call_tool / get_prompt / cleanup     *)
(* SpecHost  one MCPHost driven by arbitrary sequences of initialize /     *)
(*           cleanup                                                       *)
(* SpecDecode Spec with every kind of argument payload the engine can emit *)
(* SpecIds   Spec with an engine that draws its tool call ids from a pool  *)
(* SpecTasks two process_query invocations as tasks of one event loop     *)
(* SpecExtract _extract_result_text applied to tool results of every shape *)
(* SpecBudget Spec with settings.max_iterations zero, negative or positive *)
(* SpecShell main.py: single_query_mode and interactive_mode around one    *)
(*           MCPHost, from async with to the end of the scope              *)
(***************************************************************************)
EXTENDS Integers, Sequences, FiniteSets, TLC

\* ------------------------------------------------------------- bounds
\* settings.max_iterations ranges over 0..MaxIterBound (config.py:29 reads
\* it from the environment, default 5).
MaxIterBound == 2
\* The engine puts at most MaxCalls tool calls in one assistant turn.
MaxCalls == 2
\* SpecConn opens at most MaxConnects transports.
MaxConnects == 2
\* SpecConn calls cleanup() at most MaxCloses times in a row.
MaxCloses == 3
\* In SpecIds settings.max_iterations ranges over 0..IdsIterBound.
IdsIterBound == 1
\* In SpecTasks settings.max_iterations ranges over 0..TasksIterBound.
TasksIterBound == 2
\* In SpecExtract a tool result has at most MaxContent content items.
MaxContent == 3
\* In SpecBudget settings.max_iterations ranges over
\* -MinIterBound..BudgetIterBound.
MinIterBound == 1
BudgetIterBound == 1
\* In SpecShell settings.max_iterations ranges over 0..ShellIterBound.
ShellIterBound == 1

\* ---------------------------------------------------------- constants
NoneVal == "None"

\* self.session = None (connections are numbered from 1).
NoSession == 0

\* settings.system_prompt_name
SystemPromptName == "scope_github_analytics_prompt"

\* The text of the prompt the provider renders for SystemPromptName.
SystemPromptText == "GITHUB_ANALYTICS_PROMPT"

\* A tool the provider serves, and a name it does not serve.
KnownTool == "repo_get_repo_info"
UnknownTool == "no_such_tool"
ToolNames == {KnownTool, UnknownTool}

\* tool.model_dump() of the tools session.list_tools() returns.
ToolCatalog ==
    << [name |-> KnownTool, description |-> "repository information",
        inputSchema |-> "owner,repo"] >>

CatalogNames(tl) == {tl[i].name : i \in 1..Len(tl)}

\* ------------------------------------------------- tool call results
\* A CallToolResult: a list of content items; only a text item has a text
\* field.  The servers' tools report a failed GitHub request as an ordinary
\* result whose payload is {"error": ...}.
TextItem(t) == [type |-> "text", text |-> t]
ImageItem == [type |-> "image", text |-> NoneVal]

ResultOk == [isError |-> FALSE, content |-> <<TextItem("data")>>]
ResultErrorReport == [isError |-> TRUE, content |-> <<TextItem("error")>>]
ResultImage == [isError |-> FALSE, content |-> <<ImageItem>>]
NoResult == [isError |-> FALSE, content |-> <<>>]

\* What the provider can return for a call of `name` (it can also raise).
ProviderResults(name) ==
    IF name = KnownTool
    THEN {ResultOk, ResultErrorReport, ResultImage}
    ELSE {ResultErrorReport}

ReportsError(r) ==
    \/ r.isError
    \/ \E i \in 1..Len(r.content) : r.content[i] = TextItem("error")

\* ------------------------------------------------------------- state
VARIABLES
    \* ConnectionManager (connection_manager.py:21-26)
    session,        \* self.session: NoSession or the connection's number
    exit_stack,     \* self.exit_stack: the contexts entered, oldest first
    tools,          \* self._tools
    initialized,    \* self._initialized
    \* the Tool Provider's side
    opened,         \* transports opened so far
    releaseLog,     \* the contexts exited so far, in order
    \* what the last ConnectionManager operation did
    lastOp,
    closeRun,       \* cleanup() calls since the last initialize() that ran
    closeCompleted, \* a cleanup() of a connected manager has returned normally
    \* MCPHost (host.py:32-40) and settings
    system_prompt,
    tools_for_llm,
    max_iterations,
    \* one _process_query_internal invocation
    pc,
    user_query,
    messages,
    iteration,      \* the for loop's iterations completed or under way
    callIdx,        \* the position in assistant_message.tool_calls
    inflight,       \* the tool call awaited, or NoneVal
    result,         \* how the invocation ended
    \* history of the invocation
    engineCalls,    \* chat.completions.create calls made
    toolInvocations,\* connection_manager.call_tool calls made
    failedIds,      \* ids of the tool calls whose invocation failed
    \* what the last initialize() did, and (where a specification tracks it)
    \* the step of it that was made to fail
    initLog,
    initFault,
    \* the Completion Engine: the argument payloads it can emit, and the ids
    \* it draws from when it does not make a fresh id for every tool call
    enginePayloads,
    engineIds,
    \* the locals of a second _process_query_internal invocation on the same
    \* host, suspended while the first one runs
    parked,
    \* _extract_result_text on its own: the argument and what it returned
    extractArg,
    extractRet,
    \* main.py: the mode, the position in it, the last thing printed, and
    \* why the scope of the host was left
    mode,
    shell,
    output,
    exitCause

cmVars == <<session, exit_stack, tools, initialized>>
envVars == <<opened, releaseLog>>
histVars == <<lastOp, closeRun, closeCompleted>>
hostVars == <<system_prompt, tools_for_llm, max_iterations>>
queryVars == <<pc, user_query, messages, iteration, callIdx, inflight, result,
               engineCalls, toolInvocations, failedIds>>
shellVars == <<mode, shell, output, exitCause>>
auxVars == <<enginePayloads, engineIds, parked, extractArg, extractRet>>
restVars == <<initLog, initFault, auxVars, shellVars>>
vars == <<cmVars, envVars, histVars, hostVars, queryVars, restVars>>

\* ------------------------------------------- ConnectionManager
\* The two contexts initialize() enters on the exit stack for connection n.
Transport(n) == [kind |-> "transport", conn |-> n]
ClientSession(n) == [kind |-> "session", conn |-> n]

\* The ConnectionManager's fields and the count of transports opened.
CMState ==
    [session |-> session, exit_stack |-> exit_stack, tools |-> tools,
     initialized |-> initialized, opened |-> opened]

\* The step of initialize() that fails: entering the transport, entering the
\* ClientSession, session.initialize(), list_tools, list_prompts, or none.
InitSteps == {"transport", "session", "handshake", "list_tools", "list_prompts", "none"}

InitializeRaisesBeforeHandshake(c, f) ==
    ~c.initialized /\ f \in {"transport", "session"}

InitializeRaisesOnAnyFailure(c, f) == ~c.initialized /\ f # "none"

\* initialize() re-raises every failure but that of _discover_prompts.
InitializeRaises(c, f) ==
    /\ ~c.initialized
    /\ f \in {"transport", "session", "handshake", "list_tools"}

\* initialize() opens a connection (enters the transport context).
InitializeOpens(c, f) == ~c.initialized /\ f # "transport"

AfterInitializeUnguarded(c, f) ==
    LET n == c.opened + 1 IN
    CASE f = "transport" -> c
      [] f = "session" ->
           [c EXCEPT !.exit_stack = Append(@, Transport(n)), !.opened = n]
      [] f \in {"handshake", "list_tools"} ->
           [c EXCEPT !.exit_stack = @ \o <<Transport(n), ClientSession(n)>>,
                     !.opened = n, !.session = n]
      [] OTHER ->
           [c EXCEPT !.exit_stack = @ \o <<Transport(n), ClientSession(n)>>,
                     !.opened = n, !.session = n,
                     !.tools = ToolCatalog, !.initialized = TRUE]

\* The fields after initialize() with failing step f.
AfterInitialize(c, f) ==
    LET n == c.opened + 1 IN
    IF c.initialized THEN c
    ELSE CASE f = "transport" -> c
         [] f = "session" ->
              [c EXCEPT !.exit_stack = Append(@, Transport(n)), !.opened = n]
         [] f \in {"handshake", "list_tools"} ->
              [c EXCEPT !.exit_stack = @ \o <<Transport(n), ClientSession(n)>>,
                        !.opened = n, !.session = n]
         [] OTHER ->
              [c EXCEPT !.exit_stack = @ \o <<Transport(n), ClientSession(n)>>,
                        !.opened = n, !.session = n,
                        !.tools = ToolCatalog, !.initialized = TRUE]

InitializedClearedByCleanup(ini, ok) == FALSE

\* cleanup() (connection_manager.py:188-196): _initialized is cleared after
\* aclose() has returned; when aclose() raises the assignment is skipped.
InitializedAfterCleanup(ini, ok) == IF ok THEN FALSE ELSE ini

RECURSIVE Reverse(_)
Reverse(s) == IF s = <<>> THEN <<>> ELSE Append(Reverse(Tail(s)), Head(s))

\* AsyncExitStack.aclose(): exits every entered context, last entered first,
\* and leaves the stack empty, whether or not an exit raises.
ReleasedByClose(stack) == Reverse(stack)

StackKeptAfterClose(stack) == stack

StackAfterClose(stack) == <<>>

\* The session's contexts are still entered (its streams are open).
SessionLive(s, stack) ==
    \E i \in 1..Len(stack) : stack[i] = ClientSession(s)

\* An operation's outcome: what its caller sees, the result a return carries,
\* and whether session.<op> reached the provider.
Outcome(k, r, c) == [kind |-> k, result |-> r, contacted |-> c]

\* call_tool (connection_manager.py:119-151): the guard is on self.session;
\* the name is passed to session.call_tool as it is.
CallToolOutcomes(s, stack, name) ==
    IF s = NoSession
    THEN {Outcome("NotInitialized", NoResult, FALSE)}
    ELSE IF ~SessionLive(s, stack)
    THEN {Outcome("raised", NoResult, FALSE)}
    ELSE {Outcome("returned", r, TRUE) : r \in ProviderResults(name)}
         \cup {Outcome("raised", NoResult, TRUE)}

PromptNames == {SystemPromptName, "no_such_prompt"}

PromptResult == [isError |-> FALSE, content |-> <<TextItem(SystemPromptText)>>]

\* get_prompt (connection_manager.py:158-182): the same guard; the provider
\* renders the prompts it serves and fails for any other name.
GetPromptOutcomes(s, stack, name) ==
    IF s = NoSession
    THEN {Outcome("NotInitialized", NoResult, FALSE)}
    ELSE IF ~SessionLive(s, stack)
    THEN {Outcome("raised", NoResult, FALSE)}
    ELSE (IF name = SystemPromptName
          THEN {Outcome("returned", PromptResult, TRUE)} ELSE {})
         \cup {Outcome("raised", NoResult, TRUE)}

\* get_tools (connection_manager.py:107-117): the guard is on _initialized.
GetToolsOutcome(ini) ==
    IF ~ini THEN Outcome("NotInitialized", NoResult, FALSE)
    ELSE Outcome("returned", NoResult, FALSE)

\* The record of the last ConnectionManager operation.
Op(o, name, out, before, inCat, rel) ==
    [op |-> o, name |-> name, outcome |-> out.kind, contacted |-> out.contacted,
     connectedBefore |-> before, inCatalog |-> inCat, releasedNow |-> rel]

NoOp == Op("none", NoneVal, Outcome("none", NoResult, FALSE), FALSE, FALSE, 0)

\* The steps of initialize() in the order of its statements
\* (connection_manager.py:41-60).
InitOrder == <<"transport", "session", "handshake", "list_tools", "list_prompts">>

StepIndex(f) == CHOOSE i \in 1..Len(InitOrder) : InitOrder[i] = f

\* The steps initialize() attempts when step f fails: none when the guard
\* returns, else every step up to the first one whose failure is re-raised.
CMSteps(c, f) ==
    IF c.initialized THEN <<>>
    ELSE IF InitializeRaises(c, f) THEN SubSeq(InitOrder, 1, StepIndex(f))
    ELSE InitOrder

\* The steps MCPHost.initialize attempts (host.py:52-67): the connection's,
\* then get_prompt, then get_tools and the conversion.
HostSteps(c, f, p) ==
    CMSteps(c, f) \o
    (IF InitializeRaises(c, f) THEN <<>>
     ELSE IF p.kind # "returned" THEN <<"get_prompt">>
     ELSE <<"get_prompt", "get_tools", "convert">>)

\* The record of the last initialize(): the steps attempted, whether the
\* provider was contacted, and whether the host had its system prompt and the
\* manager was connected when the call was made.
InitRecord(steps, c, ready, conn) ==
    [steps |-> steps, contacted |-> c, readyBefore |-> ready, connectedBefore |-> conn]

NoInitLog == InitRecord(<<>>, FALSE, FALSE, FALSE)

\* ------------------------------------------------ Completion Engine
\* The serialized arguments of a tool call (tool_call.function.arguments):
\* a JSON object that is also a Python dict display,
PayloadJson == "{\"owner\": \"facebook\", \"repo\": \"react\"}"
\* text cut short, which neither JSON nor Python accepts,
PayloadTruncated == "{\"owner\": "
\* a Python expression that is no JSON and evaluates to a dict,
PayloadPyExpr == "dict(owner='facebook', repo='react')"
\* a JSON object Python does not evaluate (true is no Python name),
PayloadJsonOnly == "{\"owner\": \"facebook\", \"fork\": true}"
\* and a JSON array, which Python evaluates to a list.
PayloadList == "[\"facebook\", \"react\"]"

Payloads == {PayloadJson, PayloadTruncated}
AllPayloads == {PayloadJson, PayloadTruncated, PayloadPyExpr, PayloadJsonOnly, PayloadList}

\* eval(tool_call.function.arguments) (host.py:157): whether it returns, the
\* value, and whether the value is a dict.
Eval(payload) ==
    CASE payload = PayloadJson ->
           [ok |-> TRUE, value |-> "owner=facebook,repo=react", mapping |-> TRUE]
      [] payload = PayloadPyExpr ->
           [ok |-> TRUE, value |-> "owner=facebook,repo=react", mapping |-> TRUE]
      [] payload = PayloadList ->
           [ok |-> TRUE, value |-> "facebook,react", mapping |-> FALSE]
      [] OTHER ->
           [ok |-> FALSE, value |-> NoneVal, mapping |-> FALSE]

\* tool_call_id of a message that is no tool result.
NoId == 0

\* The engine's id of the pos-th tool call of the turn of iteration it.
CallId(it, pos) == it * (MaxCalls + 1) + pos

\* The tools the engine is offered (tools_for_llm) and asks for.
EngineToolNames == {KnownTool}

\* The ids an engine that reuses ids draws from.
IdPool == {CallId(0, 1), CallId(0, 2)}

\* The ids the engine can give the pos-th tool call of iteration it: the
\* host takes tool_call.id as it comes (host.py:173).
IdsAt(it, pos) == IF engineIds = {} THEN {CallId(it, pos)} ELSE engineIds

Requests(it, pos) ==
    {[id |-> i, name |-> n, arguments |-> a] :
        i \in IdsAt(it, pos), n \in EngineToolNames, a \in enginePayloads}

\* The tool call sequences of length k the engine can put in one turn.
RECURSIVE CallSeqsOfLen(_, _)
CallSeqsOfLen(it, k) ==
    IF k = 0 THEN {<<>>}
    ELSE {Append(s, r) : s \in CallSeqsOfLen(it, k - 1), r \in Requests(it, k)}

CallSeqs(it) == UNION {CallSeqsOfLen(it, k) : k \in 1..MaxCalls}

Contents == {"answer A", "answer B"}

\* response.choices[0].message: content with no tool calls, or tool calls.
FinalResponses == {[content |-> c, tool_calls |-> <<>>] : c \in Contents}
ToolResponses(it) == {[content |-> NoneVal, tool_calls |-> s] : s \in CallSeqs(it)}
EngineResponses(it) == FinalResponses \cup ToolResponses(it)

\* ------------------------------------------------------------ MCPHost
\* _convert_tool (host.py:70-87)
ConvertTool(t) ==
    [type |-> "function",
     function |-> [name |-> t.name, description |-> t.description,
                   parameters |-> t.inputSchema]]

ConvertTools(tl) == [i \in 1..Len(tl) |-> ConvertTool(tl[i])]

\* The MCPHost's fields set by initialize().
HostState == [system_prompt |-> system_prompt, tools_for_llm |-> tools_for_llm]

HostAfterInitializeLenient(h, c, f, p) ==
    IF InitializeRaises(c, f)
    THEN [system_prompt |-> h.system_prompt, tools_for_llm |-> h.tools_for_llm,
          raised |-> TRUE]
    ELSE [system_prompt |-> IF p.kind = "returned" THEN p.result.content[1].text
                            ELSE h.system_prompt,
          tools_for_llm |-> ConvertTools(AfterInitialize(c, f).tools),
          raised |-> FALSE]

\* MCPHost.initialize (host.py:42-68) from its fields h and the manager's c,
\* with failing connection step f and get_prompt outcome p: the fields
\* after, and whether it raised.  An exception of connection_manager
\* .initialize() or of get_prompt leaves them as they were.
HostAfterInitialize(h, c, f, p) ==
    IF InitializeRaises(c, f) \/ p.kind # "returned"
    THEN [system_prompt |-> h.system_prompt, tools_for_llm |-> h.tools_for_llm,
          raised |-> TRUE]
    ELSE [system_prompt |-> p.result.content[1].text,
          tools_for_llm |-> ConvertTools(AfterInitialize(c, f).tools),
          raised |-> FALSE]

Msg(r, c, calls, id) ==
    [role |-> r, content |-> c, tool_calls |-> calls, tool_call_id |-> id]

InitialMessagesNoPrompt(prompt, q) ==
    << Msg("system", NoneVal, <<>>, NoId), Msg("user", q, <<>>, NoId) >>

InitialMessagesUserFirst(prompt, q) ==
    << Msg("user", q, <<>>, NoId), Msg("system", prompt, <<>>, NoId) >>

\* host.py:115-118
InitialMessages(prompt, q) ==
    << Msg("system", prompt, <<>>, NoId), Msg("user", q, <<>>, NoId) >>

\* host.py:141-145
AssistantMessage(resp) == Msg("assistant", resp.content, resp.tool_calls, NoId)

ToolMessageFirstId(calls, tc, text) == Msg("tool", text, <<>>, calls[1].id)

\* host.py:171-175; calls are the turn's tool calls, tc the one executed
ToolMessage(calls, tc, text) == Msg("tool", text, <<>>, tc.id)

LoopContinuesInclusive(it, max) == it <= max

\* for iteration in range(settings.max_iterations) (host.py:120)
LoopContinues(it, max) == it < max

AlwaysFinal(resp) == TRUE

\* if not assistant_message.tool_calls (host.py:148)
IsFinalAnswer(resp) == resp.tool_calls = <<>>

\* host.py:181
FallbackMessage ==
    "I apologize, but I've reached my maximum number of analysis steps. Please try rephrasing your question or breaking it into smaller parts."

AnswerIsFallback(resp) == FallbackMessage

\* return assistant_message.content (host.py:150)
FinalAnswer(resp) == resp.content

HasText(item) == item.type = "text"

StrOf(r) == IF r.content = <<>> THEN "str(result): no content" ELSE "str(result): no text item"

ExtractFirstItemText(r) ==
    IF r.content # <<>> THEN r.content[1].text ELSE StrOf(r)

\* _extract_result_text (host.py:183-201)
ExtractResultText(r) ==
    IF r.content # <<>> /\ \E i \in 1..Len(r.content) : HasText(r.content[i])
    THEN LET i == CHOOSE k \in 1..Len(r.content) :
                    /\ HasText(r.content[k])
                    /\ \A j \in 1..(k - 1) : ~HasText(r.content[j])
         IN r.content[i].text
    ELSE StrOf(r)

Result(k, v) == [kind |-> k, value |-> v]
NoResultYet == Result("none", NoneVal)

\* The last assistant message of the transcript: the turn being executed.
LastAssistantIdx(msgs) ==
    CHOOSE i \in 1..Len(msgs) :
        /\ msgs[i].role = "assistant"
        /\ \A j \in (i + 1)..Len(msgs) : msgs[j].role # "assistant"

TurnCalls == messages[LastAssistantIdx(messages)].tool_calls

NoCall == [id |-> NoId, name |-> NoneVal, arguments |-> NoneVal]

CallAtFromEnd(calls, i) == calls[Len(calls) + 1 - i]

\* for tool_call in assistant_message.tool_calls (host.py:155): the call the
\* loop executes at position i.
CallAt(calls, i) == calls[i]

RetryAfterFailure(stage) == stage

\* Where the invocation stands after a round trip begun at stage raised: the
\* loop has no try/except (host.py:120-177), the exception leaves the method.
AfterFailure(stage) == "done"

\* The locals of an invocation that has not begun (the host is ready for it).
NoInvocation ==
    [pc |-> "ready", user_query |-> NoneVal, messages |-> <<>>, iteration |-> 0,
     callIdx |-> 0, inflight |-> NoCall, result |-> NoResultYet, engineCalls |-> 0,
     toolInvocations |-> 0, failedIds |-> {}]

\* _extract_result_text has not returned.
NotExtracted == [done |-> FALSE, text |-> NoneVal]

\* ------------------------------------------------------------- Init
\* ConnectionManager.__init__ (connection_manager.py:21-26), MCPHost.__init__
\* (host.py:32-40), settings (config.py:29), no query under way.
InitCommon ==
    /\ session = NoSession
    /\ exit_stack = <<>>
    /\ tools = <<>>
    /\ initialized = FALSE
    /\ opened = 0
    /\ releaseLog = <<>>
    /\ lastOp = NoOp
    /\ closeRun = 0
    /\ closeCompleted = FALSE
    /\ system_prompt = NoneVal
    /\ tools_for_llm = <<>>
    /\ pc = "new"
    /\ user_query = NoneVal
    /\ messages = <<>>
    /\ iteration = 0
    /\ callIdx = 0
    /\ inflight = NoCall
    /\ result = NoResultYet
    /\ engineCalls = 0
    /\ toolInvocations = 0
    /\ failedIds = {}
    /\ initLog = NoInitLog
    /\ initFault = NoneVal
    /\ parked = NoInvocation
    /\ extractRet = NotExtracted
    /\ output = NoResultYet
    /\ exitCause = NoneVal

\* One host, no shell around it; the engine emits a well-formed or a
\* truncated payload.
Init ==
    /\ InitCommon
    /\ max_iterations \in 0..MaxIterBound
    /\ enginePayloads = Payloads
    /\ engineIds = {}
    /\ extractArg = NoResult
    /\ mode = NoneVal
    /\ shell = NoneVal

SetCM(c) ==
    /\ session' = c.session
    /\ exit_stack' = c.exit_stack
    /\ tools' = c.tools
    /\ initialized' = c.initialized
    /\ opened' = c.opened

\* --------------------------------------------- the host and one query
\* MCPHost.initialize (host.py:42-68): connection_manager.initialize(), then
\* get_prompt, then get_tools and the conversion.  f is the step of the
\* connection's initialize() that fails, p the get_prompt outcome.
InitializeHost(f, p) ==
    /\ LET c == AfterInitialize(CMState, f) IN
       /\ SetCM(c)
       /\ p \in GetPromptOutcomes(c.session, c.exit_stack, SystemPromptName)
       /\ lastOp' =
             IF InitializeRaises(CMState, f)
             THEN Op("initialize", NoneVal, Outcome("raised", NoResult, f # "transport"),
                     initialized, FALSE, 0)
             ELSE IF p.kind # "returned"
             THEN Op("get_prompt", SystemPromptName, p, c.initialized, FALSE, 0)
             ELSE Op("get_tools", NoneVal, GetToolsOutcome(c.initialized),
                     c.initialized, FALSE, 0)
    /\ LET h == HostAfterInitialize(HostState, CMState, f, p) IN
       /\ system_prompt' = h.system_prompt
       /\ tools_for_llm' = h.tools_for_llm
       /\ pc' = IF h.raised THEN "init_failed" ELSE "ready"
    /\ initLog' = InitRecord(HostSteps(CMState, f, p),
                             InitializeOpens(CMState, f)
                                 \/ (~InitializeRaises(CMState, f) /\ p.contacted),
                             system_prompt # NoneVal, initialized)
    /\ closeRun' = IF initialized THEN closeRun ELSE 0
    /\ UNCHANGED <<releaseLog, closeCompleted, max_iterations, auxVars>>
    /\ UNCHANGED <<user_query, messages, iteration, callIdx, inflight, result,
                   engineCalls, toolInvocations, failedIds>>

\* The first initialize() of a new host.
HostInitialize(f, p) ==
    /\ pc = "new"
    /\ InitializeHost(f, p)
    /\ UNCHANGED <<initFault, shellVars>>

Queries == {"How many stars does facebook/react have?", "Compare React and Vue"}

\* _process_query_internal, host.py:110-118: the transcript is built.
StartQuery(q) ==
    /\ pc = "ready"
    /\ pc' = "iter"
    /\ user_query' = q
    /\ messages' = InitialMessages(system_prompt, q)
    /\ iteration' = 0
    /\ callIdx' = 0
    /\ inflight' = NoCall
    /\ result' = NoResultYet
    /\ engineCalls' = 0
    /\ toolInvocations' = 0
    /\ failedIds' = {}
    /\ UNCHANGED <<cmVars, envVars, histVars, hostVars, initLog, initFault,
                   auxVars>>

ProcessQuery(q) == StartQuery(q) /\ UNCHANGED shellVars

\* host.py:120-150: one more iteration; the engine answers resp, the
\* assistant message is appended, and a turn with no tool calls returns.
EngineRespondAt(at, resp) ==
    /\ pc = at
    /\ LoopContinues(iteration, max_iterations)
    /\ engineCalls' = engineCalls + 1
    /\ messages' = Append(messages, AssistantMessage(resp))
    /\ IF IsFinalAnswer(resp)
       THEN /\ pc' = "done"
            /\ result' = Result("answer", FinalAnswer(resp))
            /\ callIdx' = callIdx
       ELSE /\ pc' = "call"
            /\ result' = result
            /\ callIdx' = 1
    /\ UNCHANGED <<cmVars, envVars, histVars, hostVars, restVars>>
    /\ UNCHANGED <<user_query, iteration, inflight, toolInvocations, failedIds>>

\* In Spec the call and its answer are one step from the top of the loop.
EngineRespond(resp) == EngineRespondAt("iter", resp)

\* host.py:124-129: chat.completions.create raises; nothing catches it.
EngineRaisesAt(at) ==
    /\ pc = at
    /\ LoopContinues(iteration, max_iterations)
    /\ engineCalls' = engineCalls + 1
    /\ pc' = AfterFailure(at)
    /\ result' = Result("error", "EngineError")
    /\ UNCHANGED <<cmVars, envVars, histVars, hostVars, restVars>>
    /\ UNCHANGED <<user_query, messages, iteration, callIdx, inflight,
                   toolInvocations, failedIds>>

EngineRaises == EngineRaisesAt("iter")

\* host.py:179-181: the range is exhausted.
Exhausted ==
    /\ pc = "iter"
    /\ ~LoopContinues(iteration, max_iterations)
    /\ pc' = "done"
    /\ result' = Result("fallback", FallbackMessage)
    /\ UNCHANGED <<cmVars, envVars, histVars, hostVars, restVars>>
    /\ UNCHANGED <<user_query, messages, iteration, callIdx, inflight,
                   engineCalls, toolInvocations, failedIds>>

\* host.py:157: eval of the arguments raises; nothing catches it.
DecodeFails ==
    /\ pc = "call"
    /\ ~Eval(CallAt(TurnCalls, callIdx).arguments).ok
    /\ pc' = "done"
    /\ result' = Result("error", "PayloadDecodeError")
    /\ UNCHANGED <<cmVars, envVars, histVars, hostVars, restVars>>
    /\ UNCHANGED <<user_query, messages, iteration, callIdx, inflight,
                   engineCalls, toolInvocations, failedIds>>

\* host.py:155-163 and connection_manager.py:130-137: the arguments decode,
\* call_tool is called; with no session it raises at once, else the call to
\* the provider is awaited.
ToolDispatch ==
    /\ pc = "call"
    /\ Eval(CallAt(TurnCalls, callIdx).arguments).ok
    /\ toolInvocations' = toolInvocations + 1
    /\ IF session = NoSession
       THEN /\ pc' = "done"
            /\ result' = Result("error", "NotInitialized")
            /\ failedIds' = failedIds \cup {CallAt(TurnCalls, callIdx).id}
            /\ inflight' = inflight
            /\ lastOp' = Op("call_tool", CallAt(TurnCalls, callIdx).name,
                            Outcome("NotInitialized", NoResult, FALSE), initialized,
                            CallAt(TurnCalls, callIdx).name \in CatalogNames(tools), 0)
       ELSE /\ pc' = "await"
            /\ inflight' = CallAt(TurnCalls, callIdx)
            /\ UNCHANGED <<result, failedIds, lastOp>>
    /\ UNCHANGED <<cmVars, envVars, closeRun, closeCompleted, hostVars, restVars>>
    /\ UNCHANGED <<user_query, messages, iteration, callIdx, engineCalls>>

\* host.py:163-177: call_tool returns; the text is extracted and the tool
\* message appended; after the turn's last call the next iteration begins.
ToolReturns ==
    /\ pc = "await"
    /\ \E out \in CallToolOutcomes(session, exit_stack, inflight.name) :
        /\ out.kind = "returned"
        /\ messages' = Append(messages,
                              ToolMessage(TurnCalls, inflight, ExtractResultText(out.result)))
        /\ failedIds' = IF ReportsError(out.result) THEN failedIds \cup {inflight.id}
                        ELSE failedIds
        /\ lastOp' = Op("call_tool", inflight.name, out, initialized,
                        inflight.name \in CatalogNames(tools), 0)
    /\ inflight' = NoCall
    /\ IF callIdx < Len(TurnCalls)
       THEN /\ callIdx' = callIdx + 1
            /\ pc' = "call"
            /\ iteration' = iteration
       ELSE /\ callIdx' = callIdx
            /\ pc' = "iter"
            /\ iteration' = iteration + 1
    /\ UNCHANGED <<cmVars, envVars, closeRun, closeCompleted, hostVars, restVars>>
    /\ UNCHANGED <<user_query, result, engineCalls, toolInvocations>>

\* connection_manager.py:149-151: the round trip raises, _call_tool_internal
\* re-raises, and nothing in the loop catches it.
ToolRaises ==
    /\ pc = "await"
    /\ \E out \in CallToolOutcomes(session, exit_stack, inflight.name) :
        /\ out.kind # "returned"
        /\ lastOp' = Op("call_tool", inflight.name, out, initialized,
                        inflight.name \in CatalogNames(tools), 0)
    /\ pc' = AfterFailure(pc)
    /\ result' = Result("error", "ToolCallRaised")
    /\ failedIds' = failedIds \cup {inflight.id}
    /\ inflight' = NoCall
    /\ UNCHANGED <<cmVars, envVars, closeRun, closeCompleted, hostVars, restVars>>
    /\ UNCHANGED <<user_query, messages, iteration, callIdx, engineCalls,
                   toolInvocations>>

AnyOutcome ==
    {Outcome(k, r, c) : k \in {"returned", "raised", "NotInitialized"},
                        r \in {ResultOk, ResultErrorReport, ResultImage, NoResult, PromptResult},
                        c \in BOOLEAN}

QueryStep ==
    \/ (pc = "iter" /\ \E resp \in EngineResponses(iteration) : EngineRespond(resp))
    \/ EngineRaises
    \/ Exhausted
    \/ DecodeFails
    \/ ToolDispatch
    \/ ToolReturns
    \/ ToolRaises

Next ==
    \/ \E f \in InitSteps, p \in AnyOutcome : HostInitialize(f, p)
    \/ \E q \in Queries : ProcessQuery(q)
    \/ QueryStep

Spec == Init /\ [][Next]_vars

\* The event loop runs the invocation: a step that can be taken is taken
\* (the engine answers or fails, an awaited tool call returns or raises).
FairSpec == Spec /\ WF_vars(QueryStep)

\* ------------------------------------ the ConnectionManager on its own
\* initialize (connection_manager.py:28-67) with failing step f.
CMInitialize(f) ==
    /\ initialized \/ f = "transport" \/ opened < MaxConnects
    /\ SetCM(AfterInitialize(CMState, f))
    /\ lastOp' = Op("initialize", NoneVal,
                    Outcome(IF initialized THEN "noop"
                            ELSE IF InitializeRaises(CMState, f) THEN "raised"
                            ELSE "returned",
                            NoResult, InitializeOpens(CMState, f)),
                    initialized, FALSE, 0)
    /\ initLog' = InitRecord(CMSteps(CMState, f), InitializeOpens(CMState, f),
                             system_prompt # NoneVal, initialized)
    /\ initFault' = f
    /\ closeRun' = IF initialized THEN closeRun ELSE 0
    /\ UNCHANGED <<releaseLog, closeCompleted, hostVars, queryVars>>
    /\ UNCHANGED <<auxVars, shellVars>>

\* get_tools (connection_manager.py:107-117)
CMGetTools ==
    /\ lastOp' = Op("get_tools", NoneVal, GetToolsOutcome(initialized),
                    initialized, FALSE, 0)
    /\ UNCHANGED <<cmVars, envVars, closeRun, closeCompleted, hostVars, queryVars>>
    /\ UNCHANGED restVars

\* call_tool (connection_manager.py:119-151)
CMCallTool(name, out) ==
    /\ out \in CallToolOutcomes(session, exit_stack, name)
    /\ lastOp' = Op("call_tool", name, out, initialized,
                    name \in CatalogNames(tools), 0)
    /\ UNCHANGED <<cmVars, envVars, closeRun, closeCompleted, hostVars, queryVars>>
    /\ UNCHANGED restVars

\* get_prompt (connection_manager.py:158-182)
CMGetPrompt(name, out) ==
    /\ out \in GetPromptOutcomes(session, exit_stack, name)
    /\ lastOp' = Op("get_prompt", name, out, initialized, FALSE, 0)
    /\ UNCHANGED <<cmVars, envVars, closeRun, closeCompleted, hostVars, queryVars>>
    /\ UNCHANGED restVars

\* cleanup (connection_manager.py:184-196): aclose() exits the contexts; when
\* an exit raises (ok = FALSE) the error is re-raised before _initialized is
\* cleared.  self.session is left as it is.
Cleanup(ok) ==
    /\ closeRun < MaxCloses
    /\ exit_stack = <<>> => ok
    /\ releaseLog' = releaseLog \o ReleasedByClose(exit_stack)
    /\ exit_stack' = StackAfterClose(exit_stack)
    /\ initialized' = InitializedAfterCleanup(initialized, ok)
    /\ closeCompleted' = (closeCompleted \/ (ok /\ initialized))
    /\ closeRun' = closeRun + 1
    /\ lastOp' = Op("cleanup", NoneVal,
                    Outcome(IF ok THEN "returned" ELSE "raised", NoResult,
                            exit_stack # <<>>),
                    initialized, FALSE, Len(ReleasedByClose(exit_stack)))
    /\ UNCHANGED <<session, tools, opened, hostVars, initLog, initFault,
                   auxVars>>

CMCleanup(ok) == Cleanup(ok) /\ UNCHANGED <<queryVars, shellVars>>

NextConn ==
    \/ \E f \in InitSteps : CMInitialize(f)
    \/ CMGetTools
    \/ \E name \in ToolNames, out \in AnyOutcome : CMCallTool(name, out)
    \/ \E name \in PromptNames, out \in AnyOutcome : CMGetPrompt(name, out)
    \/ \E ok \in BOOLEAN : CMCleanup(ok)

SpecConn == Init /\ [][NextConn]_vars

\* ------------------------------------------- the MCPHost on its own
\* MCPHost.initialize (host.py:42-68) called on a host in any state.
HostInitializeAny(f, p) ==
    /\ initialized \/ f = "transport" \/ opened < MaxConnects
    /\ InitializeHost(f, p)
    /\ initFault' = f
    /\ UNCHANGED shellVars

\* MCPHost.cleanup (host.py:203-205)
HostCleanup(ok) == Cleanup(ok) /\ UNCHANGED <<queryVars, shellVars>>

NextHost ==
    \/ \E f \in InitSteps, p \in AnyOutcome : HostInitializeAny(f, p)
    \/ \E ok \in BOOLEAN : HostCleanup(ok)

SpecHost == Init /\ [][NextHost]_vars

\* --------------------------------- every kind of argument payload
InitDecode ==
    /\ InitCommon
    /\ max_iterations \in 0..MaxIterBound
    /\ enginePayloads = AllPayloads
    /\ engineIds = {}
    /\ extractArg = NoResult
    /\ mode = NoneVal
    /\ shell = NoneVal

SpecDecode == InitDecode /\ [][Next]_vars

\* ----------------------------------- an engine that reuses its ids
InitIds ==
    /\ InitCommon
    /\ max_iterations \in 0..IdsIterBound
    /\ enginePayloads = Payloads
    /\ engineIds = IdPool
    /\ extractArg = NoResult
    /\ mode = NoneVal
    /\ shell = NoneVal

SpecIds == InitIds /\ [][Next]_vars

\* ------------------------- two invocations on one event loop
\* Two process_query coroutines run as tasks of one asyncio event loop on the
\* same MCPHost.  The query variables hold the locals of the task that is
\* running, parked those of the other task.
InitTasks ==
    /\ InitCommon
    /\ max_iterations \in 0..TasksIterBound
    /\ enginePayloads = Payloads
    /\ engineIds = {}
    /\ extractArg = NoResult
    /\ mode = NoneVal
    /\ shell = NoneVal

Invocation ==
    [pc |-> pc, user_query |-> user_query, messages |-> messages,
     iteration |-> iteration, callIdx |-> callIdx, inflight |-> inflight,
     result |-> result, engineCalls |-> engineCalls,
     toolInvocations |-> toolInvocations, failedIds |-> failedIds]

\* The points at which the running task gives the event loop back: the await
\* of call_tool (host.py:163), and its start and its end.  The engine call
\* (host.py:124) is a call of the synchronous OpenAI client (host.py:14,
\* 35-38) with no await: the event loop's thread is inside it until it
\* returns or raises.
Suspended(at) == at \in {"ready", "await", "done"}

ResumedTranscriptShared(own, running) == running

\* The transcript a resumed task goes on with: messages is a local of
\* _process_query_internal (host.py:115), so its own.
ResumedTranscript(own, running) == own

\* The event loop resumes the other task.
SwitchTask ==
    /\ Suspended(pc)
    /\ parked' = Invocation
    /\ pc' = parked.pc
    /\ user_query' = parked.user_query
    /\ messages' = ResumedTranscript(parked.messages, messages)
    /\ iteration' = parked.iteration
    /\ callIdx' = parked.callIdx
    /\ inflight' = parked.inflight
    /\ result' = parked.result
    /\ engineCalls' = parked.engineCalls
    /\ toolInvocations' = parked.toolInvocations
    /\ failedIds' = parked.failedIds
    /\ UNCHANGED <<cmVars, envVars, histVars, hostVars, initLog, initFault,
                   shellVars>>
    /\ UNCHANGED <<enginePayloads, engineIds, extractArg, extractRet>>

\* host.py:120-124: the loop goes on and chat.completions.create is called.
EngineCallBegins ==
    /\ pc = "iter"
    /\ LoopContinues(iteration, max_iterations)
    /\ pc' = "engine"
    /\ UNCHANGED <<cmVars, envVars, histVars, hostVars, restVars>>
    /\ UNCHANGED <<user_query, messages, iteration, callIdx, inflight, result,
                   engineCalls, toolInvocations, failedIds>>

\* The engine of SpecTasks requests one tool call in a turn.
TaskResponses(it) == {r \in EngineResponses(it) : Len(r.tool_calls) <= 1}

TaskStep ==
    \/ EngineCallBegins
    \/ (pc = "engine" /\ \E resp \in TaskResponses(iteration) :
                             EngineRespondAt("engine", resp))
    \/ EngineRaisesAt("engine")
    \/ Exhausted
    \/ DecodeFails
    \/ ToolDispatch
    \/ ToolReturns
    \/ ToolRaises

NextTasks ==
    \/ \E f \in InitSteps, p \in AnyOutcome : HostInitialize(f, p)
    \/ \E q \in Queries : ProcessQuery(q)
    \/ TaskStep
    \/ SwitchTask

SpecTasks == InitTasks /\ [][NextTasks]_vars

\* ------------------------------ _extract_result_text on its own
\* The content items of a tool result: text items (one with empty text), an
\* image item and an embedded resource, which have no text attribute.
ResourceItem == [type |-> "resource", text |-> NoneVal]

ContentItems == {TextItem("data"), TextItem(""), ImageItem, ResourceItem}

RECURSIVE ContentsOfLen(_)
ContentsOfLen(k) ==
    IF k = 0 THEN {<<>>}
    ELSE {Append(c, item) : c \in ContentsOfLen(k - 1), item \in ContentItems}

ExtractInputs ==
    {[isError |-> e, content |-> c] :
        e \in BOOLEAN, c \in UNION {ContentsOfLen(k) : k \in 0..MaxContent}}

InitExtract ==
    /\ InitCommon
    /\ max_iterations \in 0..MaxIterBound
    /\ enginePayloads = Payloads
    /\ engineIds = {}
    /\ extractArg \in ExtractInputs
    /\ mode = NoneVal
    /\ shell = NoneVal

\* self._extract_result_text(result) (host.py:168) is called and returns.
ExtractStep ==
    /\ ~extractRet.done
    /\ extractRet' = [done |-> TRUE, text |-> ExtractResultText(extractArg)]
    /\ UNCHANGED <<cmVars, envVars, histVars, hostVars, queryVars, initLog,
                   initFault, shellVars>>
    /\ UNCHANGED <<enginePayloads, engineIds, parked, extractArg>>

NextExtract == ExtractStep

SpecExtract == InitExtract /\ [][NextExtract]_vars

\* ------------------------------- budgets of zero and below
\* MAX_ITERATIONS is read with int() and not validated (config.py:29), so it
\* can be zero or negative.
InitBudget ==
    /\ InitCommon
    /\ max_iterations \in (0 - MinIterBound)..BudgetIterBound
    /\ enginePayloads = Payloads
    /\ engineIds = {}
    /\ extractArg = NoResult
    /\ mode = NoneVal
    /\ shell = NoneVal

SpecBudget == InitBudget /\ [][Next]_vars

\* ------------------------------------------------ the shell (main.py)
ShellModes == {"single", "interactive"}

\* main (main.py:95-101) picks the mode; no host is constructed yet.
InitShell ==
    /\ InitCommon
    /\ max_iterations \in 0..ShellIterBound
    /\ enginePayloads = Payloads
    /\ engineIds = {}
    /\ extractArg = NoResult
    /\ mode \in ShellModes
    /\ shell = "start"

\* async with MCPHost() as host (main.py:22, 73): __aenter__ awaits
\* initialize() (host.py:207-210).  When it raises, the body is not entered
\* and __aexit__ is not called: the exception leaves the scope.
ShellEnter(f, p) ==
    /\ shell = "start"
    /\ InitializeHost(f, p)
    /\ IF pc' = "init_failed"
       THEN shell' = "exited" /\ exitCause' = "initialize_failed"
       ELSE shell' = "idle" /\ exitCause' = exitCause
    /\ UNCHANGED <<initFault, mode, output>>

\* single_query_mode (main.py:74-75): the query of the command line.
ShellSingleQuery(q) ==
    /\ mode = "single"
    /\ shell = "idle"
    /\ StartQuery(q)
    /\ shell' = "querying"
    /\ UNCHANGED <<mode, output, exitCause>>

\* What input() can return.
Inputs == Queries \cup {"exit", "QUIT", " q ", "", "  "}

\* str.strip and str.lower on these inputs.
Strip(inp) ==
    CASE inp = " q " -> "q"
      [] inp = "  " -> ""
      [] OTHER -> inp

Lower(inp) ==
    CASE inp = "QUIT" -> "quit"
      [] inp = "How many stars does facebook/react have?" ->
           "how many stars does facebook/react have?"
      [] inp = "Compare React and Vue" -> "compare react and vue"
      [] OTHER -> inp

ExitKeywords == {"exit", "quit", "q"}

\* interactive_mode, main.py:39-53: a line is read; an exit keyword breaks
\* the loop, an empty line continues it, anything else is processed.
ShellRead(inp) ==
    /\ mode = "interactive"
    /\ shell = "idle"
    /\ LET user == Strip(inp) IN
       IF Lower(user) \in ExitKeywords
       THEN /\ shell' = "closing"
            /\ exitCause' = "exit_keyword"
            /\ UNCHANGED <<cmVars, envVars, histVars, hostVars, queryVars>>
            /\ UNCHANGED <<initLog, initFault, auxVars, mode, output>>
       ELSE IF user = ""
       THEN UNCHANGED vars
       ELSE /\ StartQuery(user)
            /\ shell' = "querying"
            /\ UNCHANGED <<mode, output, exitCause>>

InputErrors == {"KeyboardInterrupt", "EOFError"}

\* main.py:62-68: input() raises; KeyboardInterrupt breaks the loop, any
\* Exception is printed and the loop goes on.
ShellInputRaises(e) ==
    /\ mode = "interactive"
    /\ shell = "idle"
    /\ IF e = "KeyboardInterrupt"
       THEN shell' = "closing" /\ exitCause' = "interrupt" /\ output' = output
       ELSE shell' = shell /\ exitCause' = exitCause /\ output' = Result("error", e)
    /\ UNCHANGED <<cmVars, envVars, histVars, hostVars, queryVars>>
    /\ UNCHANGED <<initLog, initFault, auxVars, mode>>

AfterReportEndsOnError(m, r) ==
    IF m = "interactive" /\ r.kind # "error" THEN "idle" ELSE "closing"

\* Where the shell goes when process_query has ended with r: the interactive
\* loop reads on whether it returned or raised (main.py:53-68); the single
\* query leaves the scope (main.py:75-76).
AfterReport(m, r) == IF m = "interactive" THEN "idle" ELSE "closing"

\* process_query has returned or raised (main.py:53-68, 75-76).  The
\* interactive loop prints the answer or the error and reads on; the single
\* query prints the answer, and an exception leaves the scope.  The
\* invocation's locals are gone.
ShellReport ==
    /\ shell = "querying"
    /\ pc = "done"
    /\ shell' = AfterReport(mode, result)
    /\ IF mode = "interactive"
       THEN output' = result /\ exitCause' = exitCause
       ELSE IF result.kind = "error"
       THEN output' = output /\ exitCause' = "query_failed"
       ELSE output' = result /\ exitCause' = "finished"
    /\ pc' = "ready"
    /\ user_query' = NoneVal
    /\ messages' = <<>>
    /\ iteration' = 0
    /\ callIdx' = 0
    /\ inflight' = NoCall
    /\ result' = NoResultYet
    /\ engineCalls' = 0
    /\ toolInvocations' = 0
    /\ failedIds' = {}
    /\ UNCHANGED <<cmVars, envVars, histVars, hostVars>>
    /\ UNCHANGED <<initLog, initFault, auxVars, mode>>

\* The scope is left: __aexit__ awaits cleanup() (host.py:212-214).
ShellExit(ok) ==
    /\ shell = "closing"
    /\ Cleanup(ok)
    /\ shell' = "exited"
    /\ UNCHANGED <<queryVars, mode, output, exitCause>>

NextShell ==
    \/ \E f \in InitSteps, p \in AnyOutcome : ShellEnter(f, p)
    \/ \E q \in Queries : ShellSingleQuery(q)
    \/ \E inp \in Inputs : ShellRead(inp)
    \/ \E e \in InputErrors : ShellInputRaises(e)
    \/ QueryStep
    \/ ShellReport
    \/ \E ok \in BOOLEAN : ShellExit(ok)

SpecShell == InitShell /\ [][NextShell]_vars

\* ------------------------------------------------ transcript measures
ToolTurns(msgs) ==
    {i \in 1..Len(msgs) : msgs[i].role = "assistant" /\ msgs[i].tool_calls # <<>>}

ToolResults(msgs) == {i \in 1..Len(msgs) : msgs[i].role = "tool"}

NumToolTurns(msgs) == Cardinality(ToolTurns(msgs))

RECURSIVE CallsRequested(_)
CallsRequested(msgs) ==
    IF msgs = <<>> THEN 0
    ELSE Len(Head(msgs).tool_calls) + CallsRequested(Tail(msgs))

\* From position i on, the transcript is a sequence of turns: an assistant
\* message with k tool calls followed by exactly k tool messages carrying, in
\* order, the ids of its calls; an assistant message with no calls ends it.
RECURSIVE TurnsFrom(_, _)
TurnsFrom(msgs, i) ==
    IF i > Len(msgs) THEN TRUE
    ELSE /\ msgs[i].role = "assistant"
         /\ LET k == Len(msgs[i].tool_calls) IN
            IF k = 0 THEN i = Len(msgs)
            ELSE /\ i + k <= Len(msgs)
                 /\ \A p \in 1..k :
                        /\ msgs[i + p].role = "tool"
                        /\ msgs[i + p].tool_call_id = msgs[i].tool_calls[p].id
                 /\ TurnsFrom(msgs, i + k + 1)

RoundsComplete(msgs) ==
    /\ Len(msgs) >= 2
    /\ msgs[1].role = "system"
    /\ msgs[2].role = "user"
    /\ TurnsFrom(msgs, 3)

EndsWithFinalAnswer(msgs) ==
    /\ msgs[Len(msgs)].role = "assistant"
    /\ msgs[Len(msgs)].tool_calls = <<>>
    /\ msgs[Len(msgs)].content = result.value

\* ------------------------------------------------------------ claims

\* C1: under the event loop's fairness, a process_query invocation that has
\* begun eventually ends, and at no point has it made more than
\* max_iterations engine calls, whatever the engine answers.
C1_TerminatesWithinBudget ==
    /\ (pc = "iter") ~> (pc = "done")
    /\ [](engineCalls <= max_iterations)

\* C1's case: the engine asked for tools on every turn of the largest budget
\* and the invocation ended having used the whole budget.
C1_Witness ==
    /\ pc = "done"
    /\ max_iterations = MaxIterBound
    /\ engineCalls = MaxIterBound
    /\ \A i \in 1..Len(messages) :
           messages[i].role = "assistant" => messages[i].tool_calls # <<>>

C3_Original ==
    (pc = "done" /\ result.kind # "error" /\ NumToolTurns(messages) <= max_iterations)
        => /\ result.kind = "answer"
           /\ engineCalls = NumToolTurns(messages) + 1
           /\ RoundsComplete(messages)
           /\ EndsWithFinalAnswer(messages)

\* C3 amended: the same for N < max_iterations.
C3_AnswerAfterRounds ==
    (pc = "done" /\ result.kind # "error" /\ NumToolTurns(messages) < max_iterations)
        => /\ result.kind = "answer"
           /\ engineCalls = NumToolTurns(messages) + 1
           /\ RoundsComplete(messages)
           /\ EndsWithFinalAnswer(messages)

C3_Witness ==
    /\ pc = "done"
    /\ result.kind = "answer"
    /\ max_iterations = MaxIterBound
    /\ NumToolTurns(messages) = MaxIterBound - 1
    /\ Cardinality(ToolResults(messages)) = MaxCalls

\* C4: when the engine's first response carries no tool calls the invocation
\* has returned that response's content after one engine call and no tool
\* invocation; and an answer is only ever the content of an assistant turn
\* with no tool calls, the last message of the transcript.
C4_DirectAnswer ==
    /\ (Len(messages) >= 3 /\ messages[3].tool_calls = <<>>)
          => /\ pc = "done"
             /\ result = Result("answer", messages[3].content)
             /\ engineCalls = 1
             /\ toolInvocations = 0
             /\ Len(messages) = 3
    /\ result.kind = "answer" => EndsWithFinalAnswer(messages)

C4_Witness ==
    /\ pc = "done"
    /\ Len(messages) = 3
    /\ result = Result("answer", "answer B")
    /\ toolInvocations = 0

\* C5: whenever the engine is about to be called again, and when the fallback
\* is returned, every assistant turn with k tool calls is followed by exactly
\* k tool messages carrying its calls' ids in the calls' order; with
\* max_iterations = 2 and one tool call per turn the final transcript has 2
\* assistant turns with calls and 2 tool messages.
C5_ResultsMatchRequests ==
    /\ (pc = "iter" \/ (pc = "done" /\ result.kind = "fallback"))
          => RoundsComplete(messages)
    /\ (/\ pc = "done"
        /\ result.kind = "fallback"
        /\ max_iterations = 2
        /\ \A i \in ToolTurns(messages) : Len(messages[i].tool_calls) = 1)
          => /\ NumToolTurns(messages) = 2
             /\ Cardinality(ToolResults(messages)) = 2

C5_Witness ==
    /\ pc = "iter"
    /\ iteration = 1
    /\ Len(messages) = 3 + MaxCalls
    /\ Len(messages[3].tool_calls) = MaxCalls
    /\ messages[3 + MaxCalls].tool_call_id = messages[3].tool_calls[MaxCalls].id

\* C6 as stated: once a tool invocation has failed (the provider reported an
\* error for the call, or the round trip raised) the invocation has ended in
\* error, no tool message carries the failed call's id, and nothing more is
\* executed.
C6_ToolFailureAborts ==
    failedIds # {}
        => /\ pc = "done"
           /\ result.kind = "error"
           /\ inflight = NoCall
           /\ \A i \in ToolResults(messages) : messages[i].tool_call_id \notin failedIds

\* C7 as stated: call_tool on a connected manager with a name that is not in
\* the cached catalog fails with UnknownToolError and does not reach the
\* provider.
C7_UnknownToolRejected ==
    (lastOp.op = "call_tool" /\ lastOp.connectedBefore /\ ~lastOp.inCatalog)
        => (lastOp.outcome = "UnknownToolError" /\ ~lastOp.contacted)

\* C8 as stated: get_tools, call_tool and get_prompt on a manager that is not
\* connected (never connected, connect failed part-way, closed) fail with the
\* not-initialized error and do not reach the provider.
C8_GuardedWhenNotConnected ==
    (lastOp.op \in {"get_tools", "call_tool", "get_prompt"} /\ ~lastOp.connectedBefore)
        => (lastOp.outcome = "NotInitialized" /\ ~lastOp.contacted)

\* C9 as stated: once a cleanup() of a connected manager has completed, no step makes the manager
\* connected again or opens another connection.
C9_ClosedIsTerminal ==
    [][closeCompleted => (~initialized' /\ opened' = opened)]_vars

\* C10: no context is exited twice; after a cleanup() the exit stack is empty
\* and every transport opened has been released; and a cleanup() that follows
\* a cleanup() returns without error and releases nothing.
C10_CloseIdempotent ==
    /\ \A i, j \in 1..Len(releaseLog) : releaseLog[i] = releaseLog[j] => i = j
    /\ lastOp.op = "cleanup"
          => /\ exit_stack = <<>>
             /\ \A n \in 1..opened : \E i \in 1..Len(releaseLog) : releaseLog[i] = Transport(n)
    /\ (lastOp.op = "cleanup" /\ closeRun >= 2)
          => (lastOp.outcome = "returned" /\ lastOp.releasedNow = 0)

\* C10's case: a connected manager closed twice.
C10_Witness ==
    /\ lastOp.op = "cleanup"
    /\ closeRun = 2
    /\ closeCompleted
    /\ tools = ToolCatalog
    /\ releaseLog = <<ClientSession(1), Transport(1)>>

\* C11 as stated: when the scope that owns the host has been left, by normal
\* teardown, by a failed query or by an initialize() that failed part-way, a
\* connection that was opened has been closed: cleanup() was called exactly
\* once and no context is left entered.
C11_ReleasedOnEveryExit ==
    (shell = "exited" /\ opened > 0) => (closeRun = 1 /\ exit_stack = <<>>)

\* C12 as stated: an initialize() called on a host that is already initialized
\* (its system prompt is set) attempts no step and makes no round trip to the
\* provider: no connect, no discovery, no get_prompt.
C12_SecondInitializeIsNoOp ==
    initLog.readyBefore => (initLog.steps = <<>> /\ ~initLog.contacted)

\* C13: initialize() on a connected manager returns at its guard: the step
\* changes neither the session handle, the exit stack, the cached catalog nor
\* the connected flag, opens no transport, releases nothing, and attempts no
\* step of the connection sequence.
C13_ConnectWhenConnected ==
    [][(initialized /\ lastOp'.op = "initialize")
          => /\ UNCHANGED <<session, exit_stack, tools, initialized, opened, releaseLog>>
             /\ lastOp'.outcome = "noop"
             /\ initLog'.steps = <<>>
             /\ ~initLog'.contacted]_vars

\* C13's case: initialize() was called on a connected manager.
C13_Witness ==
    /\ lastOp.op = "initialize"
    /\ lastOp.connectedBefore
    /\ initialized
    /\ session = 1
    /\ tools = ToolCatalog

\* C14: an initialize() of an unconnected manager in which list_prompts fails
\* returns normally with the manager connected, its session live and the tool
\* catalog cached; a failure of any other step is raised and leaves the
\* manager unconnected.
C14_PromptDiscoveryFailureAbsorbed ==
    (lastOp.op = "initialize" /\ ~lastOp.connectedBefore)
        => /\ initFault = "list_prompts"
                => /\ lastOp.outcome = "returned"
                   /\ initialized
                   /\ tools = ToolCatalog
                   /\ SessionLive(session, exit_stack)
           /\ initFault \in {"transport", "session", "handshake", "list_tools"}
                => (lastOp.outcome = "raised" /\ ~initialized)

\* C14's case: list_prompts failed in the initialize() just made.
C14_Witness ==
    /\ lastOp.op = "initialize"
    /\ ~lastOp.connectedBefore
    /\ initFault = "list_prompts"
    /\ initLog.steps = InitOrder
    /\ initialized

\* The last step initialize() attempted was get_prompt: the fetch of the
\* system prompt failed.
PromptFetchFailed ==
    /\ initLog.steps # <<>>
    /\ initLog.steps[Len(initLog.steps)] = "get_prompt"

\* C15: when the fetch of the system prompt fails in initialize(), the error
\* is raised to the caller, the host's system prompt stays unset and its
\* adapted catalog empty, and no query is started: no transcript is built
\* and the engine is never called.
C15_PromptFetchFailureSurfaced ==
    PromptFetchFailed
        => /\ pc = "init_failed"
           /\ lastOp.op = "get_prompt"
           /\ lastOp.outcome = "raised"
           /\ system_prompt = NoneVal
           /\ tools_for_llm = <<>>
           /\ messages = <<>>
           /\ engineCalls = 0

\* C15's case: the connection was made, the tools cached, and get_prompt
\* failed.
C15_Witness ==
    /\ PromptFetchFailed
    /\ initialized
    /\ tools = ToolCatalog
    /\ initLog.contacted
    /\ pc = "init_failed"

\* C16: when session.initialize() or list_tools fails in the initialize() of
\* an unconnected manager, initialize() raises, the manager is not marked
\* initialized, every step up to the failing one was attempted once and none
\* after it (no list_prompts, no get_prompt, no conversion), and a host that
\* had no system prompt still has none and an empty adapted catalog.
C16_ConnectFailureSurfaced ==
    (/\ lastOp.op # "cleanup"
     /\ initFault \in {"handshake", "list_tools"}
     /\ ~initLog.connectedBefore)
        => /\ lastOp.op = "initialize"
           /\ lastOp.outcome = "raised"
           /\ ~initialized
           /\ pc = "init_failed"
           /\ initLog.steps = SubSeq(InitOrder, 1, StepIndex(initFault))
           /\ ~initLog.readyBefore => (system_prompt = NoneVal /\ tools_for_llm = <<>>)

\* C16's case: the transport and the session were opened and list_tools
\* failed.
C16_Witness ==
    /\ lastOp.op = "initialize"
    /\ initFault = "list_tools"
    /\ ~initLog.connectedBefore
    /\ session = 1
    /\ exit_stack = <<Transport(1), ClientSession(1)>>
    /\ initLog.steps = <<"transport", "session", "handshake", "list_tools">>

\* In the interactive shell: while the loop runs the session is open and
\* cleanup() has not been called; a failed initialize() has left the scope
\* with no query read, nothing printed and the engine never called; and the
\* loop has been left only by an exit keyword or an interrupt.
C17_LoopState ==
    /\ (mode = "interactive" /\ shell \in {"idle", "querying"})
          => (initialized /\ SessionLive(session, exit_stack) /\ closeRun = 0)
    /\ (mode = "interactive" /\ pc = "init_failed")
          => /\ shell = "exited"
             /\ exitCause = "initialize_failed"
             /\ user_query = NoneVal
             /\ output = NoResultYet
             /\ engineCalls = 0
    /\ (mode = "interactive" /\ shell \in {"closing", "exited"} /\ pc # "init_failed")
          => exitCause \in {"exit_keyword", "interrupt"}

\* A query of the interactive shell that has ended in an error is reported
\* and the loop reads on, with nothing of the connection changed.
C17_FailedQueryStep ==
    (mode = "interactive" /\ shell = "querying" /\ pc = "done" /\ result.kind = "error")
        => /\ shell' = "idle"
           /\ output' = result
           /\ pc' = "ready"
           /\ UNCHANGED <<cmVars, envVars, closeRun, exitCause>>

\* C17: in the interactive shell a failed query is reported and the loop
\* goes on reading with the session open; a failed initialize() ends the
\* session before any query is read; the loop ends only on an exit keyword or
\* an interrupt.
C17_ShellLoopContinues == []C17_LoopState /\ [][C17_FailedQueryStep]_vars

\* C17's case: a query failed, its error was printed, and the next query is
\* being processed on the same session.
C17_Witness ==
    /\ mode = "interactive"
    /\ output = Result("error", "ToolCallRaised")
    /\ shell = "querying"
    /\ engineCalls = 1
    /\ SessionLive(session, exit_stack)

\* How many times step occurs in the steps of an initialize().
StepCount(steps, step) == Cardinality({i \in 1..Len(steps) : steps[i] = step})

\* Once the host is initialized it holds the prompt the provider rendered and
\* the conversion of the provider's catalog; every transcript starts with
\* that system prompt; and get_prompt and list_tools were called once.
C18_SameInstructions ==
    shell \in {"idle", "querying", "closing"}
        => /\ system_prompt = SystemPromptText
           /\ tools_for_llm = ConvertTools(ToolCatalog)
           /\ messages # <<>> => messages[1] = Msg("system", system_prompt, <<>>, NoId)
           /\ StepCount(initLog.steps, "get_prompt") = 1
           /\ StepCount(initLog.steps, "list_tools") = 1
           /\ lastOp.op \in {"get_tools", "call_tool"}

\* No step of the shell's body, whether it starts a query, runs it, ends
\* it or reads a line, changes the system prompt or the adapted catalog,
\* or makes another initialize().
C18_BodyStep ==
    shell \in {"idle", "querying"}
        => UNCHANGED <<system_prompt, tools_for_llm, tools, initLog>>

\* C18: after initialize() the system instructions and the adapted catalog
\* are never changed by process_query: every invocation of a session, however
\* it ends, sends the same ones, and get_prompt and tool discovery happen once
\* per session, not once per query.
C18_InstructionsFixed == []C18_SameInstructions /\ [][C18_BodyStep]_vars

\* C18's case: a query of the session has ended and the next one is in its
\* second iteration.
C18_Witness ==
    /\ shell = "querying"
    /\ output.kind # "none"
    /\ pc = "iter"
    /\ iteration = 1
    /\ messages[1].content = SystemPromptText

\* The payloads that are valid structured data (JSON) and decode, by a strict
\* structured-data parser, to a key-to-value mapping.
DecodesToMapping(payload) == payload \in {PayloadJson, PayloadJsonOnly}

\* C19 as stated: a tool call is dispatched to the provider only when its
\* argument payload is valid structured data that decodes to a key-to-value
\* mapping; any other payload has ended the query before call_tool.
C19_OnlyStructuredDataDispatched ==
    pc = "await" => DecodesToMapping(inflight.arguments)

\* The tool messages appended since the turn's assistant message.
TurnResults == Len(messages) - LastAssistantIdx(messages)

\* C20: the tool calls of a turn run one at a time in the order the engine
\* emitted them: a call is awaited only at pc = "await", it is the call at the
\* loop's position, the calls before it have returned and their tool messages
\* are appended in order, and every call_tool made so far has either produced
\* its tool message, is the one awaited, or raised and ended the invocation.
C20_SequentialToolCalls ==
    /\ (inflight # NoCall) <=> (pc = "await")
    /\ pc \in {"call", "await"}
          => /\ callIdx \in 1..Len(TurnCalls)
             /\ TurnResults = callIdx - 1
             /\ \A j \in 1..(callIdx - 1) :
                   LET m == messages[LastAssistantIdx(messages) + j] IN
                   m.role = "tool" /\ m.tool_call_id = TurnCalls[j].id
    /\ pc = "await" => inflight = TurnCalls[callIdx]
    /\ toolInvocations = Cardinality(ToolResults(messages))
                         + (IF pc = "await" THEN 1 ELSE 0)
                         + (IF result = Result("error", "ToolCallRaised") THEN 1 ELSE 0)

\* C20's case: the second call of a turn is awaited after the first has
\* returned and its tool message is in the transcript.
C20_Witness ==
    /\ pc = "await"
    /\ callIdx = 2
    /\ inflight = TurnCalls[2]
    /\ toolInvocations = 2
    /\ messages[Len(messages)].role = "tool"
    /\ messages[Len(messages)].tool_call_id = TurnCalls[1].id

\* The positions (message, call) of the Tool Call Requests of a transcript.
RequestPositions(msgs) ==
    UNION {{<<i, j>> : j \in 1..Len(msgs[i].tool_calls)} : i \in 1..Len(msgs)}

RequestIds(msgs) == {msgs[r[1]].tool_calls[r[2]].id : r \in RequestPositions(msgs)}

\* How many requests, and how many tool messages, carry the id.
IdRequests(msgs, id) ==
    Cardinality({r \in RequestPositions(msgs) : msgs[r[1]].tool_calls[r[2]].id = id})

IdResults(msgs, id) ==
    Cardinality({i \in ToolResults(msgs) : msgs[i].tool_call_id = id})

\* Every request's id has exactly one tool message, and it stands after the
\* request's assistant message and before the next assistant message.
OneResultPerRequest(msgs) ==
    \A r \in RequestPositions(msgs) :
        LET id == msgs[r[1]].tool_calls[r[2]].id IN
        /\ IdResults(msgs, id) = 1
        /\ \E i \in ToolResults(msgs) :
              /\ msgs[i].tool_call_id = id
              /\ i > r[1]
              /\ \A k \in (r[1] + 1)..i : msgs[k].role = "tool"

InInvocation == pc \in {"iter", "call", "await", "done"}

LastMessage(msgs) == msgs[Len(msgs)]

\* C22: during an invocation the transcript begins with the system
\* instructions and the user query; at the termination check (the assistant
\* message has just been appended) the last message is an assistant message,
\* and at each engine call after the first it is a tool message.
C22_TranscriptShape ==
    /\ InInvocation
          => /\ Len(messages) >= 2
             /\ messages[1] = Msg("system", system_prompt, <<>>, NoId)
             /\ messages[2] = Msg("user", user_query, <<>>, NoId)
    /\ ((pc = "call" /\ callIdx = 1) \/ (pc = "done" /\ result.kind = "answer"))
          => LastMessage(messages).role = "assistant"
    /\ (pc = "iter" /\ iteration >= 1 /\ LoopContinues(iteration, max_iterations))
          => LastMessage(messages).role = "tool"

\* C22's case: a final answer given at the second engine call, after a turn
\* of tool calls.
C22_Witness ==
    /\ pc = "done"
    /\ result.kind = "answer"
    /\ engineCalls = 2
    /\ messages[Len(messages) - 1].role = "tool"
    /\ LastMessage(messages).role = "assistant"

\* The steps of a complete MCPHost.initialize, in the order of the code.
FullInitOrder == InitOrder \o <<"get_prompt", "get_tools", "convert">>

StepsOf(log) == {log.steps[i] : i \in 1..Len(log.steps)}

\* C23: the steps of every initialize() run are an initial part of the fixed
\* order; a run that fetches the prompt has connected and discovered the
\* tools before, and a run that adapts the catalog adapts the tools it
\* discovered itself.
C23_FixedOrder ==
    /\ initLog.steps = SubSeq(FullInitOrder, 1, Len(initLog.steps))
    /\ "get_prompt" \in StepsOf(initLog)
          => {"transport", "session", "handshake", "list_tools"} \subseteq StepsOf(initLog)
    /\ "convert" \in StepsOf(initLog) => "list_tools" \in StepsOf(initLog)

\* The provider round trips of the invocation that have ended or are awaited:
\* one per tool message, the awaited one, and the one that raised.
RoundTripsBegun ==
    Cardinality(ToolResults(messages))
        + (IF pc = "await" THEN 1 ELSE 0)
        + (IF result.value \in {"ToolCallRaised", "NotInitialized"} THEN 1 ELSE 0)

C25_RoundTripsSuspend ==
    pc \in {"engine", "await"} => ENABLED SwitchTask

\* The transcript of an invocation begins with the system instructions and
\* the invocation's own query, and holds one assistant message per engine
\* call of the invocation that returned and one tool message per call_tool
\* of the invocation that returned.
OwnTranscript(inv) ==
    inv.messages # <<>>
        => /\ Len(inv.messages) >= 2
           /\ inv.messages[1] = Msg("system", system_prompt, <<>>, NoId)
           /\ inv.messages[2] = Msg("user", inv.user_query, <<>>, NoId)
           /\ Cardinality({i \in 1..Len(inv.messages) : inv.messages[i].role = "assistant"})
                 = inv.engineCalls - (IF inv.result.value = "EngineError" THEN 1 ELSE 0)
           /\ Cardinality(ToolResults(inv.messages))
                 = inv.toolInvocations
                     - (IF inv.pc = "await" THEN 1 ELSE 0)
                     - (IF inv.result.value \in {"ToolCallRaised", "NotInitialized"}
                        THEN 1 ELSE 0)

\* C28: each of the two invocations has its own transcript, beginning with
\* the system instructions and its own query and holding the messages of its
\* own rounds only; a step of the running invocation leaves the other's
\* transcript as it is, and a switch hands each invocation its own.
C28_OwnTranscripts ==
    /\ [](OwnTranscript(Invocation) /\ OwnTranscript(parked))
    /\ [][/\ parked'.messages # parked.messages => parked' = Invocation
          /\ parked' # parked => messages' = parked.messages]_vars

\* C28's case: both invocations awaited a tool call at the same time; the
\* running one has its tool message, the other still waits.
C28_Witness ==
    /\ pc = "iter"
    /\ Len(messages) = 4
    /\ messages[4].role = "tool"
    /\ parked.pc = "await"
    /\ Len(parked.messages) = 3
    /\ parked.user_query # user_query

\* The provider connections opened and not released: the transports entered
\* on the exit stack.
OpenConnections ==
    {exit_stack[i].conn : i \in {j \in 1..Len(exit_stack) : exit_stack[j].kind = "transport"}}

\* C26 as stated: whatever initialize() and cleanup() calls were made, at most
\* one provider connection is open and not released.
C26_OneConnection == Cardinality(OpenConnections) <= 1

\* C30: _initialized becomes true only in an initialize() whose transport,
\* session, handshake and tool discovery succeeded, and false only in a
\* cleanup() that returned; a cleanup() of an initialized manager that raises
\* leaves it initialized, and an initialize() after it is a no-op.
C30_InitializedFlag ==
    [][/\ (~initialized /\ initialized')
            => /\ lastOp'.op = "initialize"
               /\ initFault' \in {"list_prompts", "none"}
               /\ {"transport", "session", "handshake", "list_tools"}
                      \subseteq StepsOf(initLog')
               /\ session' # NoSession
               /\ SessionLive(session', exit_stack')
               /\ tools' = ToolCatalog
       /\ (initialized /\ ~initialized')
            => (lastOp'.op = "cleanup" /\ lastOp'.outcome = "returned")
       /\ (initialized /\ lastOp'.op = "cleanup" /\ lastOp'.outcome = "raised")
            => initialized'
       /\ (/\ lastOp.op = "cleanup"
           /\ lastOp.outcome = "raised"
           /\ lastOp.connectedBefore
           /\ lastOp'.op = "initialize")
            => (lastOp'.outcome = "noop" /\ UNCHANGED <<cmVars, opened>>)]_vars

\* C30's case: cleanup() of an initialized manager raised, and the
\* initialize() that followed returned at its guard.
C30_Witness ==
    /\ lastOp.op = "initialize"
    /\ lastOp.outcome = "noop"
    /\ initialized
    /\ exit_stack = <<>>
    /\ closeRun >= 1

\* The content items before the first one that has a text field.
RECURSIVE ItemsBeforeText(_)
ItemsBeforeText(content) ==
    IF content = <<>> \/ Head(content).type = "text" THEN 0
    ELSE 1 + ItemsBeforeText(Tail(content))

\* C27: the text extracted from a tool result is the text of its first
\* content item with a text field, whatever items stand before it; with no
\* content or no such item it is the string rendering of the whole result.
C27_FirstTextOrRendering ==
    extractRet.done
        => LET n == ItemsBeforeText(extractArg.content) IN
           IF n < Len(extractArg.content)
           THEN extractRet.text = extractArg.content[n + 1].text
           ELSE extractRet.text = StrOf(extractArg)

\* C27's case: the text was taken from an item that follows two items
\* without a text field.
C27_Witness ==
    /\ extractRet.done
    /\ Len(extractArg.content) = 3
    /\ extractArg.content[1] = ImageItem
    /\ extractArg.content[2] = ResourceItem
    /\ extractRet.text = "data"

\* C29: with max_iterations zero or negative no engine call and no tool
\* invocation is ever made, and an invocation, whatever its query, ends with
\* the fallback message and the transcript as it was built.
C29_NoBudgetNoCalls ==
    max_iterations <= 0
        => /\ engineCalls = 0
           /\ toolInvocations = 0
           /\ pc \notin {"call", "await"}
           /\ pc = "iter" => (ENABLED Exhausted /\ messages = InitialMessages(system_prompt, user_query))
           /\ pc = "done"
                 => /\ result = Result("fallback", FallbackMessage)
                    /\ user_query \in Queries
                    /\ messages = InitialMessages(system_prompt, user_query)

\* C29's case: an invocation with max_iterations = 0 has returned.
C29_Witness ==
    /\ max_iterations = 0
    /\ pc = "done"
    /\ result.value = FallbackMessage
    /\ Len(messages) = 2

====
